---- MODULE Spec2Model ----
(***************************************************************************)
(* A model of the Todoist MCP server (src/server.py, src/utils.py): the    *)
(* argument normalizer, the response serializer, the pagination helper,    *)
(* the lifespan that builds the client, and the tool functions.            *)
(*                                                                         *)
(* Python values are tagged records (field t).  A string is a record       *)
(* holding its syntactic form and the numbers or text written in it, so    *)
(* that parsing (fromisoformat) and formatting (isoformat) are real        *)
(* conversions between strings and typed date values.                      *)
(***************************************************************************)
EXTENDS Integers, Sequences, FiniteSets, TLC

VARIABLES
    norm,       \* a run of _prepare_api_kwargs: its input, output, re-normalized output
    ser,        \* a run of _serialize_response: its input and what it returned or raised
    pag,        \* a run of sync_fetch inside _fetch_all_from_paginator
    token,      \* whether TODOIST_API_TOKEN is set in the environment
    hasattrs,   \* the optional methods the SDK client has (what hasattr answers)
    lifespan,   \* todoist_lifespan: "init", "yielded" (serving) or "raised"
    client,     \* lifespan_context.todoist_client
    built,      \* how many TodoistAPI handles get_todoist_client has constructed
    inv         \* the tool invocation in progress

helpers == <<norm, ser, pag>>
server == <<token, hasattrs, lifespan, client, built, inv>>
vars == <<norm, ser, pag, token, hasattrs, lifespan, client, built, inv>>

(***************************************************************************)
(* Bounds of the model.                                                    *)
(***************************************************************************)
MaxKeys == 2        \* keyword arguments given together to one normalizer call
MaxListLen == 2     \* items of a list handed to the serializer
MaxPages == 3       \* pages a paginator yields
MaxPageLen == 2     \* items of one page
MaxProvided == 2    \* optional parameters a caller provides in one tool call
MaxFetches == 2     \* pages a tool takes from a paginator before it ends
MaxSessions == 2    \* times the host enters todoist_lifespan in one process

(***************************************************************************)
(* Strings.  form "ymd" is YYYY-MM-DD, "ymdT" is YYYY-MM-DDTHH:00:00,      *)
(* "ymdTZ" the same followed by Z, "ymdTOff" the same followed by +00:00,  *)
(* "text" is any other text (its parts are in txt).                        *)
(***************************************************************************)
Str(form, y, m, d, hh, txt) ==
    [t |-> "str", form |-> form, y |-> y, m |-> m, d |-> d, hh |-> hh, txt |-> txt]

Text(parts) == Str("text", 0, 0, 0, 0, parts)

None == [t |-> "none"]
PyInt(n) == [t |-> "int", n |-> n]
PyBool(b) == [t |-> "bool", b |-> b]
PyDate(y, m, d) == [t |-> "date", y |-> y, m |-> m, d |-> d]
PyDatetime(y, m, d, hh, tz) ==
    [t |-> "datetime", y |-> y, m |-> m, d |-> d, hh |-> hh, tz |-> tz]
PyList(items) == [t |-> "list", items |-> items]
PyDict(m) == [t |-> "dict", m |-> m]

\* An instance of a dataclass (an SDK model such as Task): its class name and
\* its fields.
PyRec(cls, f) == [t |-> "rec", cls |-> cls, f |-> f]
\* A dataclass itself (the class, not an instance).
PyClass == [t |-> "class"]
\* A set: copy.deepcopy copies it, json cannot render it.
PySet == [t |-> "set"]
\* A generator: neither copy.deepcopy nor json accepts it.
PyGen == [t |-> "generator"]
\* A list that holds itself.
PyCyclic == [t |-> "cyclic"]

\* A JSON document, held as the value json.loads gives back for it.
JsonText(v) == [t |-> "jsontext", v |-> v]

\* An exception raised by a call, as a value: its class and its text.
Raised(cls, msg) == [t |-> "raise", cls |-> cls, msg |-> msg]

IsRaise(v) == v.t = "raise"

(***************************************************************************)
(* datetime.date / datetime.datetime of the standard library.              *)
(***************************************************************************)
IsLeap(y) == (y % 4 = 0 /\ y % 100 # 0) \/ y % 400 = 0

DaysInMonth(y, m) ==
    IF m = 2 THEN (IF IsLeap(y) THEN 29 ELSE 28)
    ELSE IF m \in {4, 6, 9, 11} THEN 30 ELSE 31

ValidYMD(y, m, d) ==
    /\ y >= 1 /\ y <= 9999
    /\ m >= 1 /\ m <= 12
    /\ d >= 1 /\ d <= DaysInMonth(y, m)

ValidHour(hh) == hh >= 0 /\ hh <= 23

\* date.fromisoformat(s): a date for YYYY-MM-DD naming a day of the calendar,
\* ValueError for every other string.
date_fromisoformat(s) ==
    IF s.form = "ymd" /\ ValidYMD(s.y, s.m, s.d)
    THEN PyDate(s.y, s.m, s.d)
    ELSE Raised("ValueError", <<"Invalid isoformat string">>)

\* datetime.fromisoformat(s): a date alone is midnight of that day; Z and
\* +00:00 give an aware value in UTC; ValueError for every other string.
datetime_fromisoformat(s) ==
    IF s.form = "ymd" /\ ValidYMD(s.y, s.m, s.d)
    THEN PyDatetime(s.y, s.m, s.d, 0, "naive")
    ELSE IF s.form = "ymdT" /\ ValidYMD(s.y, s.m, s.d) /\ ValidHour(s.hh)
    THEN PyDatetime(s.y, s.m, s.d, s.hh, "naive")
    ELSE IF s.form \in {"ymdTZ", "ymdTOff"} /\ ValidYMD(s.y, s.m, s.d) /\ ValidHour(s.hh)
    THEN PyDatetime(s.y, s.m, s.d, s.hh, "utc")
    ELSE Raised("ValueError", <<"Invalid isoformat string">>)

\* obj.isoformat() of a date or a datetime.
isoformat(v) ==
    IF v.t = "date" THEN Str("ymd", v.y, v.m, v.d, 0, <<>>)
    ELSE IF v.tz = "utc" THEN Str("ymdTOff", v.y, v.m, v.d, v.hh, <<>>)
    ELSE Str("ymdT", v.y, v.m, v.d, v.hh, <<>>)

(***************************************************************************)
(* _prepare_api_kwargs                                                     *)
(***************************************************************************)
DateKeys == {"due_date", "deadline_date"}
DatetimeKeys == {"due_datetime", "since", "until"}

\* The buggy variant: the isinstance(v, str) tests are missing, so a value
\* that is not a string is handed to fromisoformat, which raises TypeError.
CoerceNoTypeTest(k, v) ==
    IF k \in DateKeys
    THEN IF v.t # "str" THEN Raised("TypeError", <<"fromisoformat: argument must be str">>)
         ELSE IF IsRaise(date_fromisoformat(v)) THEN v ELSE date_fromisoformat(v)
    ELSE IF k \in DatetimeKeys
    THEN IF v.t # "str" THEN Raised("TypeError", <<"fromisoformat: argument must be str">>)
         ELSE IF IsRaise(datetime_fromisoformat(v)) THEN v ELSE datetime_fromisoformat(v)
    ELSE v

\* The buggy variant: a string the parser rejects is replaced by None.
CoerceDropMalformed(k, v) ==
    IF k \in DateKeys /\ v.t = "str"
    THEN IF IsRaise(date_fromisoformat(v)) THEN None ELSE date_fromisoformat(v)
    ELSE IF k \in DatetimeKeys /\ v.t = "str"
    THEN IF IsRaise(datetime_fromisoformat(v)) THEN None ELSE datetime_fromisoformat(v)
    ELSE v

\* Lines 120-130: new_v for one key and one value that is not None.
Coerce(k, v) ==
    IF k \in DateKeys /\ v.t = "str"
    THEN IF IsRaise(date_fromisoformat(v)) THEN v ELSE date_fromisoformat(v)
    ELSE IF k \in DatetimeKeys /\ v.t = "str"
    THEN IF IsRaise(datetime_fromisoformat(v)) THEN v ELSE datetime_fromisoformat(v)
    ELSE v

\* bool(v) is False: "not v" in a condition.
Falsy(v) ==
    \/ v.t = "none"
    \/ v.t = "str" /\ v.form = "text" /\ v.txt = <<>>
    \/ v.t = "int" /\ v.n = 0
    \/ v.t = "bool" /\ ~v.b
    \/ v.t = "list" /\ v.items = <<>>
    \/ v.t = "dict" /\ DOMAIN v.m = {}

\* The buggy variant: "if not v: continue" drops every falsy value.
SkippedIfFalsy(v) == Falsy(v)

\* Line 117: the test that skips a key.
Skipped(v) == v.t = "none"

\* The result of _prepare_api_kwargs(**kw): a mapping, or the exception of
\* the first coercion that raised.
_prepare_api_kwargs(kw) ==
    LET kept == {k \in DOMAIN kw : ~Skipped(kw[k])}
        out == [k \in kept |-> Coerce(k, kw[k])]
    IN  IF \E k \in kept : IsRaise(out[k])
        THEN CHOOSE r \in {out[k] : k \in kept} : IsRaise(r)
        ELSE PyDict(out)


(***************************************************************************)
(* dataclasses.asdict and json.dumps of the standard library, and          *)
(* json_datetime_serializer, _serialize_response.                          *)
(***************************************************************************)
\* The order in which the fields of a dataclass are declared and the items
\* of a dict were inserted: the first one that fails is the failure raised.
FieldOrder ==
    <<"error", "details", "status", "message", "success", "action",
      "id", "content", "name", "due", "date", "created_at", "is_shared", "value">>

FirstRaiseOf(m) ==
    LET bad == {i \in 1..Len(FieldOrder) :
                   FieldOrder[i] \in DOMAIN m /\ IsRaise(m[FieldOrder[i]])}
    IN  m[FieldOrder[CHOOSE i \in bad : \A j \in bad : i <= j]]

FirstRaiseIn(items) ==
    LET bad == {i \in 1..Len(items) : IsRaise(items[i])}
    IN  items[CHOOSE i \in bad : \A j \in bad : i <= j]

TypeName(v) ==
    IF v.t = "rec" THEN v.cls
    ELSE IF v.t = "class" THEN "type"
    ELSE v.t

RECURSIVE _asdict_inner(_)
\* dataclasses._asdict_inner: recursion into dataclasses, lists and dicts,
\* copy.deepcopy of everything else.
_asdict_inner(v) ==
    IF v.t = "rec"
    THEN LET inner == [n \in DOMAIN v.f |-> _asdict_inner(v.f[n])]
         IN  IF \E n \in DOMAIN inner : IsRaise(inner[n])
             THEN FirstRaiseOf(inner) ELSE PyDict(inner)
    ELSE IF v.t = "list"
    THEN LET inner == [i \in 1..Len(v.items) |-> _asdict_inner(v.items[i])]
         IN  IF \E i \in 1..Len(inner) : IsRaise(inner[i])
             THEN FirstRaiseIn(inner) ELSE PyList(inner)
    ELSE IF v.t = "dict"
    THEN LET inner == [n \in DOMAIN v.m |-> _asdict_inner(v.m[n])]
         IN  IF \E n \in DOMAIN inner : IsRaise(inner[n])
             THEN FirstRaiseOf(inner) ELSE PyDict(inner)
    ELSE IF v.t = "cyclic"
    THEN Raised("RecursionError", <<"maximum recursion depth exceeded">>)
    ELSE IF v.t = "generator"
    THEN Raised("TypeError", <<"cannot pickle '", "generator", "' object">>)
    ELSE v

\* asdict(obj) of a dataclass instance.
asdict(obj) == _asdict_inner(obj)

\* The buggy variant: only datetime is rendered, a date is refused.
json_datetime_serializer_no_date(obj) ==
    IF obj.t = "datetime"
    THEN isoformat(obj)
    ELSE Raised("TypeError",
                <<"Object of type ", TypeName(obj), " is not JSON serializable">>)

\* Lines 62-67.
json_datetime_serializer(obj) ==
    IF obj.t \in {"datetime", "date"}
    THEN isoformat(obj)
    ELSE Raised("TypeError",
                <<"Object of type ", TypeName(obj), " is not JSON serializable">>)

RECURSIVE json_encode(_)
\* The value json.loads gives back for json.dumps(v, default=
\* json_datetime_serializer), or the exception json.dumps raises.
json_encode(v) ==
    IF v.t \in {"none", "str", "int", "bool"}
    THEN v
    ELSE IF v.t = "list"
    THEN LET inner == [i \in 1..Len(v.items) |-> json_encode(v.items[i])]
         IN  IF \E i \in 1..Len(inner) : IsRaise(inner[i])
             THEN FirstRaiseIn(inner) ELSE PyList(inner)
    ELSE IF v.t = "dict"
    THEN LET inner == [n \in DOMAIN v.m |-> json_encode(v.m[n])]
         IN  IF \E n \in DOMAIN inner : IsRaise(inner[n])
             THEN FirstRaiseOf(inner) ELSE PyDict(inner)
    ELSE IF v.t = "cyclic"
    THEN Raised("ValueError", <<"Circular reference detected">>)
    ELSE json_datetime_serializer(v)

json_dumps(v) ==
    IF IsRaise(json_encode(v)) THEN json_encode(v) ELSE JsonText(json_encode(v))

\* Lines 78-92: prepared_data, or the exception asdict raised.
prepared_data(data) ==
    IF data.t = "list"
    THEN LET items == [i \in 1..Len(data.items) |->
                          IF data.items[i].t = "rec"
                          THEN asdict(data.items[i]) ELSE data.items[i]]
         IN  IF \E i \in 1..Len(items) : IsRaise(items[i])
             THEN FirstRaiseIn(items) ELSE PyList(items)
    ELSE IF data.t = "rec"
    THEN asdict(data)
    ELSE data

\* The buggy variant: one handler, one message, for every failure.
DumpsFailureOneMessage(e) ==
    json_dumps(PyDict([error |-> Text(<<"Failed to serialize response">>),
                       details |-> Text(e.msg)]))

\* Lines 96-110: what the two except clauses return for the exception e.
DumpsFailure(e) ==
    IF e.cls = "TypeError"
    THEN json_dumps(PyDict([error |-> Text(<<"Failed to serialize response">>),
                            details |-> Text(e.msg)]))
    ELSE json_dumps(PyDict([error |-> Text(<<"A general error occurred during JSON serialization">>),
                            details |-> Text(e.msg)]))

\* Lines 70-110: the string returned, or the exception that leaves the
\* function (the one raised while prepared_data is built, outside the try).
_serialize_response(data) ==
    IF IsRaise(prepared_data(data))
    THEN prepared_data(data)
    ELSE IF IsRaise(json_dumps(prepared_data(data)))
    THEN DumpsFailure(json_dumps(prepared_data(data)))
    ELSE json_dumps(prepared_data(data))

(***************************************************************************)
(* The normalizer on its own: one call on an argument mapping, then a      *)
(* second call on what the first returned.                                 *)
(***************************************************************************)
DateStrings ==
    { Str("ymd", 2024, 1, 31, 0, <<>>),      \* 2024-01-31
      Str("ymd", 2024, 2, 29, 0, <<>>),      \* 2024-02-29, a leap day
      Str("ymd", 2023, 2, 29, 0, <<>>),      \* 2023-02-29, no such day
      Str("ymd", 2024, 13, 1, 0, <<>>) }     \* 2024-13-01, no such month

DatetimeStrings ==
    { Str("ymdT", 2024, 1, 31, 12, <<>>),    \* 2024-01-31T12:00:00
      Str("ymdT", 2024, 1, 31, 24, <<>>),    \* 2024-01-31T24:00:00, no such hour
      Str("ymdTZ", 2023, 9, 1, 12, <<>>),    \* 2023-09-01T12:00:00Z
      Str("ymdTOff", 2023, 9, 1, 12, <<>>),  \* 2023-09-01T12:00:00+00:00
      Str("ymdTZ", 2023, 9, 31, 12, <<>>) }  \* 2023-09-31T12:00:00Z, no such day

TextStrings == { Text(<<"tomorrow">>), Text(<<>>) }

NormKeys == DateKeys \cup DatetimeKeys \cup {"project_id", "attachment"}

NormValues ==
    {None} \cup DateStrings \cup DatetimeStrings \cup TextStrings
    \cup { PyInt(0), PyBool(FALSE), PyList(<<>>),
           PyDate(2024, 1, 31), PyDatetime(2024, 1, 31, 12, "naive"),
           PyDict([file_name |-> None, file_url |-> Text(<<"http://x/f">>)]) }

NormInputs ==
    UNION { [ks -> NormValues] : ks \in {K \in SUBSET NormKeys : Cardinality(K) <= MaxKeys} }

NormIdle == [phase |-> "idle", in |-> PyDict(<<>>), out |-> None, out2 |-> None]
SerIdle == [phase |-> "idle", in |-> None, out |-> None]
PagIdle == [phase |-> "idle", pages |-> <<>>, next |-> 1, all_items |-> <<>>]
InvIdle ==
    [pc |-> "idle", tool |-> "", args |-> <<>>, client |-> None, calls |-> <<>>,
     fetches |-> <<>>, all_items |-> <<>>, held |-> None, caught |-> None,
     result |-> None]

\* The server is not started: the helper functions are exercised alone.
ServerOff ==
    /\ token = FALSE
    /\ hasattrs = {}
    /\ lifespan = "init"
    /\ client = None
    /\ built = 0
    /\ inv = InvIdle

InitNorm ==
    /\ norm \in {[phase |-> "in", in |-> PyDict(kw), out |-> None, out2 |-> None] : kw \in NormInputs}
    /\ ser = SerIdle
    /\ pag = PagIdle
    /\ ServerOff

\* parsed = _prepare_api_kwargs(**kwargs)
Normalize ==
    /\ norm.phase = "in"
    /\ norm' = [norm EXCEPT !.phase = "once", !.out = _prepare_api_kwargs(norm.in.m)]
    /\ UNCHANGED <<ser, pag, server>>

\* _prepare_api_kwargs(**parsed), when the first call returned a mapping
Renormalize ==
    /\ norm.phase = "once"
    /\ norm.out.t = "dict"
    /\ norm' = [norm EXCEPT !.phase = "twice", !.out2 = _prepare_api_kwargs(norm.out.m)]
    /\ UNCHANGED <<ser, pag, server>>

NextNorm == Normalize \/ Renormalize

SpecNorm == InitNorm /\ [][NextNorm]_vars

(***************************************************************************)
(* Claims about the normalizer (checked under SpecNorm).                   *)
(***************************************************************************)
NormDone == norm.phase \in {"once", "twice"}

\* C3: a key whose supplied value is absent (None) never appears in the
\* normalized output, and every key whose value is present does appear.
C3_AbsentDroppedPresentKept ==
    NormDone =>
        /\ norm.out.t = "dict"
        /\ \A k \in DOMAIN norm.in.m :
              (norm.in.m[k].t = "none") <=> (k \notin DOMAIN norm.out.m)
        /\ DOMAIN norm.out.m \subseteq DOMAIN norm.in.m

\* A call given one absent value and one present but empty value has returned.
C3_Witness ==
    /\ norm.phase = "once"
    /\ DOMAIN norm.in.m = {"project_id", "attachment"}
    /\ norm.in.m["attachment"].t = "none"
    /\ norm.in.m["project_id"] = Text(<<>>)
    /\ DOMAIN norm.out.m = {"project_id"}

\* The well-formed strings of the inputs, listed one by one, with the typed
\* value each one denotes.
WellFormedDate ==
    [s \in { Str("ymd", 2024, 1, 31, 0, <<>>), Str("ymd", 2024, 2, 29, 0, <<>>) } |->
        IF s.m = 1 THEN PyDate(2024, 1, 31) ELSE PyDate(2024, 2, 29)]

WellFormedTimestamp ==
    [s \in { Str("ymd", 2024, 1, 31, 0, <<>>), Str("ymd", 2024, 2, 29, 0, <<>>),
             Str("ymdT", 2024, 1, 31, 12, <<>>), Str("ymdTZ", 2023, 9, 1, 12, <<>>),
             Str("ymdTOff", 2023, 9, 1, 12, <<>>) } |->
        IF s.form = "ymd" THEN PyDatetime(2024, s.m, s.d, 0, "naive")
        ELSE IF s.form = "ymdT" THEN PyDatetime(2024, 1, 31, 12, "naive")
        ELSE PyDatetime(2023, 9, 1, 12, "utc")]

\* C5: under a calendar-date key or a timestamp key, a well-formed string is
\* converted to the typed value it denotes and a malformed string is
\* forwarded unchanged; the normalizer does not fail.
C5_ParseOrPassThrough ==
    NormDone =>
        /\ norm.out.t = "dict"
        /\ \A k \in DOMAIN norm.in.m :
              LET v == norm.in.m[k] IN
              v.t = "str" =>
                 /\ k \in DateKeys =>
                       norm.out.m[k] = IF v \in DOMAIN WellFormedDate
                                       THEN WellFormedDate[v] ELSE v
                 /\ k \in DatetimeKeys =>
                       norm.out.m[k] = IF v \in DOMAIN WellFormedTimestamp
                                       THEN WellFormedTimestamp[v] ELSE v

\* One call converted a well-formed date and passed a malformed timestamp on.
C5_Witness ==
    /\ norm.phase = "once"
    /\ DOMAIN norm.in.m = {"due_date", "due_datetime"}
    /\ norm.in.m["due_date"] = Str("ymd", 2024, 2, 29, 0, <<>>)
    /\ norm.in.m["due_datetime"] = Str("ymdT", 2024, 1, 31, 24, <<>>)
    /\ norm.out.m["due_date"] = PyDate(2024, 2, 29)
    /\ norm.out.m["due_datetime"] = norm.in.m["due_datetime"]

\* C6: normalizing the output of the normalizer returns that output again.
C6_Idempotent ==
    /\ norm.phase = "once" => norm.out.t = "dict"
    /\ norm.phase = "twice" => norm.out2 = norm.out

\* A second normalization ran on an output holding a typed date that the first
\* normalization had parsed from a string.
C6_Witness ==
    /\ norm.phase = "twice"
    /\ "due_date" \in DOMAIN norm.in.m
    /\ norm.in.m["due_date"].t = "str"
    /\ norm.out.m["due_date"].t = "date"
    /\ norm.out2.m["due_date"].t = "date"

(***************************************************************************)
(* The serializer on its own: one call on one value.                       *)
(***************************************************************************)
Primitives == { None, Text(<<"Buy milk">>), PyInt(4), PyBool(TRUE) }

Dates == { PyDate(2024, 1, 31), PyDatetime(2024, 1, 31, 12, "naive"),
           PyDatetime(2023, 9, 1, 12, "utc") }

\* Values json cannot render.
Unrenderable == { PySet, PyGen, PyClass }

Atoms == Primitives \cup Dates \cup Unrenderable \cup {PyCyclic}

\* A Due record, as nested in a Task.
DueOf(v) == PyRec("Due", [date |-> v])

TaskOf(v) == PyRec("Task", [id |-> Text(<<"7">>), due |-> v])

Records ==
    { TaskOf(v) : v \in Atoms }
    \cup { TaskOf(DueOf(v)) : v \in Dates \cup {None, PyGen} }
    \cup { TaskOf(PyList(<<v>>)) : v \in {Text(<<"home">>), PyDate(2024, 1, 31), PySet} }
    \cup { PyRec("Label", [id |-> Text(<<"3">>), name |-> Text(<<"home">>),
                          is_shared |-> PyBool(b)]) : b \in BOOLEAN }

Dicts ==
    { PyDict([success |-> PyBool(b), id |-> Text(<<"7">>), action |-> Text(<<"deleted">>)])
        : b \in BOOLEAN }
    \cup { PyDict([error |-> Text(<<"Todoist client not available.">>)]) }
    \cup { PyDict([value |-> v]) : v \in Atoms \cup {TaskOf(None), PyList(<<PyDate(2024, 1, 31)>>)} }

ListsUpTo(n) == UNION { [1..k -> Atoms \cup Records] : k \in 0..n }

SerInputs ==
    Atoms \cup Records \cup Dicts \cup { PyList(items) : items \in ListsUpTo(MaxListLen) }

InitSer ==
    /\ ser \in {[phase |-> "in", in |-> v, out |-> None] : v \in SerInputs}
    /\ norm = NormIdle
    /\ pag = PagIdle
    /\ ServerOff

\* _serialize_response(data)
Serialize ==
    /\ ser.phase = "in"
    /\ ser' = [ser EXCEPT !.phase = "done", !.out = _serialize_response(ser.in)]
    /\ UNCHANGED <<norm, pag, server>>

NextSer == Serialize

SpecSer == InitSer /\ [][NextSer]_vars

(***************************************************************************)
(* Claims about the serializer (checked under SpecSer).                    *)
(***************************************************************************)
SerDone == ser.phase = "done"

RECURSIVE Holds(_, _)
\* v is, or holds at some depth, a value whose tag is in tags.
Holds(v, tags) ==
    IF v.t \in tags THEN TRUE
    ELSE IF v.t = "list" THEN \E i \in 1..Len(v.items) : Holds(v.items[i], tags)
    ELSE IF v.t = "dict" THEN \E n \in DOMAIN v.m : Holds(v.m[n], tags)
    ELSE IF v.t = "rec" THEN \E n \in DOMAIN v.f : Holds(v.f[n], tags)
    ELSE FALSE

IsErrorObject(out) ==
    /\ out.t = "jsontext"
    /\ out.v.t = "dict"
    /\ "error" \in DOMAIN out.v.m

\* C7: the serializer never raises: for any input free of cycles it returns a
\* string, and when the input holds a value json cannot render (a set, a
\* generator, a class), that string decodes to an object with an error key.
C7_NeverRaises ==
    (SerDone /\ ~Holds(ser.in, {"cyclic"})) =>
        /\ ser.out.t = "jsontext"
        /\ Holds(ser.in, {"set", "generator", "class"}) => IsErrorObject(ser.out)

\* The rendering of the prepared data failed with the exception e.
RenderingFailed(e) ==
    /\ SerDone
    /\ ~IsRaise(prepared_data(ser.in))
    /\ json_dumps(prepared_data(ser.in)) = e

RenderFailures ==
    { Raised(c, m) : c \in {"TypeError", "ValueError"},
                     m \in { <<"Circular reference detected">> }
                           \cup { <<"Object of type ", n, " is not JSON serializable">> :
                                    n \in {"set", "generator", "type", "Task", "Due", "Label"} } }

\* C8 as stated: whenever JSON rendering fails, whatever the failure, the
\* string returned is the object whose error is "Failed to serialize response"
\* and whose details is the failure text.
C8_OneMessageForEveryFailure ==
    \A e \in RenderFailures :
        RenderingFailed(e) =>
            ser.out = JsonText(PyDict([error |-> Text(<<"Failed to serialize response">>),
                                       details |-> Text(e.msg)]))

\* C8 as amended: a rendering failure that is a TypeError gives the object
\* whose error is "Failed to serialize response"; any other rendering failure
\* gives the object whose error is "A general error occurred during JSON
\* serialization"; in both, details is the failure text.
C8_MessagePerFailureClass ==
    \A e \in RenderFailures :
        RenderingFailed(e) =>
            /\ e.cls = "TypeError" =>
                 ser.out = JsonText(PyDict([error |-> Text(<<"Failed to serialize response">>),
                                            details |-> Text(e.msg)]))
            /\ e.cls # "TypeError" =>
                 ser.out = JsonText(PyDict(
                     [error |-> Text(<<"A general error occurred during JSON serialization">>),
                      details |-> Text(e.msg)]))

\* The serializer returned after json.dumps raised ValueError on a list that
\* holds itself.
C8_Witness ==
    /\ RenderingFailed(Raised("ValueError", <<"Circular reference detected">>))
    /\ ser.in = PyList(<<PyInt(4), PyCyclic>>)
    /\ IsErrorObject(ser.out)

\* The ISO 8601 text of each date of the inputs, written out.
IsoText ==
    [v \in Dates |->
        IF v.t = "date" THEN Str("ymd", 2024, 1, 31, 0, <<>>)              \* 2024-01-31
        ELSE IF v.tz = "naive" THEN Str("ymdT", 2024, 1, 31, 12, <<>>)     \* 2024-01-31T12:00:00
        ELSE Str("ymdTOff", 2023, 9, 1, 12, <<>>)]                         \* 2023-09-01T12:00:00+00:00

\* A record whose fields are all primitives or dates.
IsFlatRecord(v) ==
    /\ v.t = "rec"
    /\ \A n \in DOMAIN v.f : v.f[n].t \in {"none", "str", "int", "bool", "date", "datetime"}

\* The JSON object j reproduces the record r: the same fields, primitives
\* equal, dates as their ISO 8601 text.
Reproduces(j, r) ==
    /\ j.t = "dict"
    /\ DOMAIN j.m = DOMAIN r.f
    /\ \A n \in DOMAIN r.f :
          j.m[n] = IF r.f[n].t \in {"date", "datetime"} THEN IsoText[r.f[n]] ELSE r.f[n]

\* C9: a record of primitives and dates is serialized to a JSON object with
\* exactly the record's fields, equal values, and every date as its ISO 8601
\* string; a list of n such records to an array of n such objects in order.
C9_RoundTrip ==
    SerDone =>
        /\ IsFlatRecord(ser.in) =>
              ser.out.t = "jsontext" /\ Reproduces(ser.out.v, ser.in)
        /\ (ser.in.t = "list" /\ \A i \in 1..Len(ser.in.items) : IsFlatRecord(ser.in.items[i])) =>
              /\ ser.out.t = "jsontext"
              /\ ser.out.v.t = "list"
              /\ Len(ser.out.v.items) = Len(ser.in.items)
              /\ \A i \in 1..Len(ser.in.items) : Reproduces(ser.out.v.items[i], ser.in.items[i])

\* A list of two different records, one with a date and one with an aware
\* timestamp, has been serialized.
C9_Witness ==
    /\ SerDone
    /\ ser.in = PyList(<<TaskOf(PyDate(2024, 1, 31)), TaskOf(PyDatetime(2023, 9, 1, 12, "utc"))>>)
    /\ \A i \in 1..2 : IsFlatRecord(ser.in.items[i])
    /\ Reproduces(ser.out.v.items[1], ser.in.items[1])
    /\ ser.out.v.items[2].m["due"] = Str("ymdTOff", 2023, 9, 1, 12, <<>>)

(***************************************************************************)
(* _fetch_all_from_paginator on its own: sync_fetch drains one paginator.  *)
(***************************************************************************)
\* The buggy variant: all_items = page.
extend_replacing(all_items, page) == page

\* Line 57: all_items.extend(page)
extend(all_items, page) == all_items \o page

PageItems == {"a", "b"}

PagesUpTo(n, len) ==
    UNION { [1..k -> UNION { [1..l -> PageItems] : l \in 0..len }] : k \in 0..n }

InitPag ==
    /\ pag \in {[phase |-> "draining", pages |-> ps, next |-> 1, all_items |-> <<>>] :
                  ps \in PagesUpTo(MaxPages, MaxPageLen)}
    /\ norm = NormIdle
    /\ ser = SerIdle
    /\ ServerOff

\* Lines 56-57: one turn of "for page in paginator".
FetchPage ==
    /\ pag.phase = "draining"
    /\ pag.next <= Len(pag.pages)
    /\ pag' = [pag EXCEPT !.all_items = extend(pag.all_items, pag.pages[pag.next]),
                          !.next = pag.next + 1]
    /\ UNCHANGED <<norm, ser, server>>

\* Line 58: the paginator is exhausted, return all_items.
ReturnAllItems ==
    /\ pag.phase = "draining"
    /\ pag.next > Len(pag.pages)
    /\ pag' = [pag EXCEPT !.phase = "returned"]
    /\ UNCHANGED <<norm, ser, server>>

NextPag == FetchPage \/ ReturnAllItems

SpecPag == InitPag /\ [][NextPag]_vars

(***************************************************************************)
(* Claims about the pagination flattener (checked under SpecPag).          *)
(***************************************************************************)
RECURSIVE ItemsBefore(_, _)
\* The number of items in the pages before page i.
ItemsBefore(pages, i) ==
    IF i <= 1 THEN 0 ELSE ItemsBefore(pages, i - 1) + Len(pages[i - 1])

\* C10: the flattener returns the concatenation of all pages' items in page
\* order and within-page order: item j of page i is at place (items of the
\* earlier pages) + j, and nothing else is in the result.
C10_FlattenIsConcatenation ==
    pag.phase = "returned" =>
        /\ Len(pag.all_items) = ItemsBefore(pag.pages, Len(pag.pages) + 1)
        /\ \A i \in 1..Len(pag.pages) :
              \A j \in 1..Len(pag.pages[i]) :
                 pag.all_items[ItemsBefore(pag.pages, i) + j] = pag.pages[i][j]

\* A paginator of three pages, the middle one empty, has been drained.
C10_Witness ==
    /\ pag.phase = "returned"
    /\ pag.pages = << <<"a", "b">>, <<>>, <<"b", "a">> >>
    /\ pag.all_items = <<"a", "b", "b", "a">>

(***************************************************************************)
(* The tools.  Each tool is described by what its body names: the SDK      *)
(* method it calls, its parameters (req: required, opt: optional), the     *)
(* parameters it hands to _prepare_api_kwargs (norm) and those it passes   *)
(* to the SDK by name (direct), and the texts of its envelopes.            *)
(*   kind "call":   one SDK call, its result serialized                    *)
(*   kind "status": one SDK call, {success, <idkey>, action} serialized    *)
(*   kind "update": one SDK call, then a read-back when it reports success *)
(*   kind "list":   a paginator drained by _fetch_all_from_paginator       *)
(*   the other kinds are tools with a body of their own.                   *)
(***************************************************************************)
Base ==
    [name |-> "", kind |-> "", method |-> "", readback |-> "", req |-> {}, opt |-> {},
     norm |-> {}, direct |-> {}, idparam |-> "", idkey |-> "", action |-> "",
     failmsg |-> "", errpre |-> "", attr |-> "", postlimit |-> FALSE]

add_task ==
    [Base EXCEPT !.name = "add_task", !.kind = "call", !.method = "add_task",
        !.req = {"content"}, !.direct = {"content"},
        !.opt = {"description", "project_id", "section_id", "parent_id", "labels",
                 "priority", "due_string", "due_lang", "due_date", "due_datetime",
                 "assignee_id", "order", "auto_reminder", "auto_parse_labels",
                 "duration", "duration_unit", "deadline_date", "deadline_lang"},
        !.norm = {"description", "project_id", "section_id", "parent_id", "labels",
                  "priority", "due_string", "due_lang", "due_date", "due_datetime",
                  "assignee_id", "order", "auto_reminder", "auto_parse_labels",
                  "duration", "duration_unit", "deadline_date", "deadline_lang"},
        !.errpre = "Error adding task"]

get_task ==
    [Base EXCEPT !.name = "get_task", !.kind = "call", !.method = "get_task",
        !.req = {"task_id"}, !.direct = {"task_id"},
        !.idparam = "task_id", !.errpre = "Error getting task "]

get_tasks ==
    [Base EXCEPT !.name = "get_tasks", !.kind = "list", !.method = "get_tasks",
        !.opt = {"project_id", "section_id", "parent_id", "label", "ids", "limit"},
        !.norm = {"project_id", "section_id", "parent_id", "label", "ids", "limit"},
        !.errpre = "Error getting tasks"]

filter_tasks ==
    [Base EXCEPT !.name = "filter_tasks", !.kind = "list", !.method = "filter_tasks",
        !.opt = {"query", "lang", "limit"}, !.norm = {"query", "lang", "limit"},
        !.errpre = "Error filtering tasks"]

add_task_quick ==
    [Base EXCEPT !.name = "add_task_quick", !.kind = "call", !.method = "add_task_quick",
        !.req = {"text"}, !.direct = {"text"},
        !.opt = {"note", "reminder", "auto_reminder"},
        !.norm = {"note", "reminder", "auto_reminder"},
        !.errpre = "Error adding task with quick add"]

update_task ==
    [Base EXCEPT !.name = "update_task", !.kind = "update", !.method = "update_task",
        !.readback = "get_task", !.req = {"task_id"}, !.direct = {"task_id"},
        !.opt = {"content", "description", "labels", "priority", "due_string",
                 "due_lang", "due_date", "due_datetime", "assignee_id", "day_order",
                 "collapsed", "duration", "duration_unit", "deadline_date",
                 "deadline_lang"},
        !.norm = {"content", "description", "labels", "priority", "due_string",
                  "due_lang", "due_date", "due_datetime", "assignee_id", "day_order",
                  "collapsed", "duration", "duration_unit", "deadline_date",
                  "deadline_lang"},
        !.idparam = "task_id",
        !.failmsg = "Update operation did not report success.",
        !.errpre = "Error updating task "]

complete_task ==
    [Base EXCEPT !.name = "complete_task", !.kind = "status", !.method = "close_task",
        !.req = {"task_id"}, !.direct = {"task_id"}, !.idparam = "task_id",
        !.idkey = "task_id", !.action = "completed",
        !.errpre = "Error completing task "]

uncomplete_task ==
    [Base EXCEPT !.name = "uncomplete_task", !.kind = "status", !.method = "reopen_task",
        !.req = {"task_id"}, !.direct = {"task_id"}, !.idparam = "task_id",
        !.idkey = "task_id", !.action = "reopened",
        !.errpre = "Error uncompleting task "]

move_task ==
    [Base EXCEPT !.name = "move_task", !.kind = "move", !.method = "update_task",
        !.readback = "get_task", !.req = {"task_id"}, !.direct = {"task_id"},
        !.opt = {"project_id", "section_id", "parent_id"},
        !.norm = {"project_id", "section_id"}, !.idparam = "task_id",
        !.failmsg = "Move operation (via update_task) did not report success.",
        !.errpre = "Error moving task "]

delete_task ==
    [Base EXCEPT !.name = "delete_task", !.kind = "status", !.method = "delete_task",
        !.req = {"task_id"}, !.direct = {"task_id"}, !.idparam = "task_id",
        !.idkey = "task_id", !.action = "deleted",
        !.errpre = "Error deleting task "]

get_completed_tasks_by_due_date ==
    [Base EXCEPT !.name = "get_completed_tasks_by_due_date", !.kind = "list",
        !.method = "get_completed_tasks_by_due_date",
        !.attr = "get_completed_tasks_by_due_date",
        !.req = {"since", "until"},
        !.opt = {"workspace_id", "project_id", "section_id", "parent_id",
                 "filter_query", "filter_lang", "limit"},
        !.norm = {"since", "until", "project_id", "limit"},
        !.errpre = "Error getting completed tasks by due date"]

get_completed_tasks_by_completion_date ==
    [Base EXCEPT !.name = "get_completed_tasks_by_completion_date", !.kind = "list",
        !.method = "get_completed_tasks_by_completion_date",
        !.attr = "get_completed_tasks_by_completion_date",
        !.req = {"since", "until"},
        !.opt = {"workspace_id", "filter_query", "filter_lang", "limit"},
        !.norm = {"since", "until", "limit"},
        !.errpre = "Error getting completed tasks by completion date"]

add_project ==
    [Base EXCEPT !.name = "add_project", !.kind = "call", !.method = "add_project",
        !.req = {"name"}, !.direct = {"name"},
        !.opt = {"description", "parent_id", "color", "is_favorite", "view_style"},
        !.norm = {"description", "parent_id", "color", "is_favorite", "view_style"},
        !.errpre = "Error adding project"]

get_project ==
    [Base EXCEPT !.name = "get_project", !.kind = "call", !.method = "get_project",
        !.req = {"project_id"}, !.direct = {"project_id"},
        !.idparam = "project_id", !.errpre = "Error getting project "]

get_projects ==
    [Base EXCEPT !.name = "get_projects", !.kind = "list", !.method = "get_projects",
        !.opt = {"limit"}, !.postlimit = TRUE, !.errpre = "Error getting projects"]

update_project ==
    [Base EXCEPT !.name = "update_project", !.kind = "update", !.method = "update_project",
        !.readback = "get_project", !.req = {"project_id"}, !.direct = {"project_id"},
        !.opt = {"name", "description", "color", "is_favorite", "view_style"},
        !.norm = {"name", "description", "color", "is_favorite", "view_style"},
        !.idparam = "project_id",
        !.failmsg = "Update project operation did not report success.",
        !.errpre = "Error updating project "]

archive_project ==
    [Base EXCEPT !.name = "archive_project", !.kind = "status", !.method = "archive_project",
        !.req = {"project_id"}, !.direct = {"project_id"}, !.idparam = "project_id",
        !.idkey = "project_id", !.action = "archived",
        !.errpre = "Error archiving project "]

unarchive_project ==
    [Base EXCEPT !.name = "unarchive_project", !.kind = "status",
        !.method = "unarchive_project",
        !.req = {"project_id"}, !.direct = {"project_id"}, !.idparam = "project_id",
        !.idkey = "project_id", !.action = "unarchived",
        !.errpre = "Error unarchiving project "]

delete_project ==
    [Base EXCEPT !.name = "delete_project", !.kind = "status", !.method = "delete_project",
        !.req = {"project_id"}, !.direct = {"project_id"}, !.idparam = "project_id",
        !.idkey = "project_id", !.action = "deleted",
        !.errpre = "Error deleting project "]

get_collaborators ==
    [Base EXCEPT !.name = "get_collaborators", !.kind = "call",
        !.method = "get_collaborators",
        !.req = {"project_id"}, !.direct = {"project_id"}, !.opt = {"limit"},
        !.idparam = "project_id",
        !.errpre = "Error getting collaborators for project "]

add_section ==
    [Base EXCEPT !.name = "add_section", !.kind = "call", !.method = "add_section",
        !.req = {"name", "project_id"}, !.direct = {"name", "project_id"},
        !.opt = {"order"}, !.norm = {"order"}, !.errpre = "Error adding section"]

get_section ==
    [Base EXCEPT !.name = "get_section", !.kind = "call", !.method = "get_section",
        !.req = {"section_id"}, !.direct = {"section_id"},
        !.idparam = "section_id", !.errpre = "Error getting section "]

get_sections ==
    [Base EXCEPT !.name = "get_sections", !.kind = "list", !.method = "get_sections",
        !.opt = {"project_id", "limit"}, !.norm = {"project_id"}, !.postlimit = TRUE,
        !.errpre = "Error getting sections"]

update_section ==
    [Base EXCEPT !.name = "update_section", !.kind = "update", !.method = "update_section",
        !.readback = "get_section", !.req = {"section_id", "name"},
        !.direct = {"section_id", "name"}, !.idparam = "section_id",
        !.failmsg = "Update section operation did not report success.",
        !.errpre = "Error updating section "]

delete_section ==
    [Base EXCEPT !.name = "delete_section", !.kind = "status", !.method = "delete_section",
        !.req = {"section_id"}, !.direct = {"section_id"}, !.idparam = "section_id",
        !.idkey = "section_id", !.action = "deleted",
        !.errpre = "Error deleting section "]

add_label ==
    [Base EXCEPT !.name = "add_label", !.kind = "call", !.method = "add_label",
        !.req = {"name"}, !.direct = {"name"},
        !.opt = {"color", "item_order", "is_favorite"},
        !.norm = {"color", "item_order", "is_favorite"},
        !.errpre = "Error adding label"]

get_label ==
    [Base EXCEPT !.name = "get_label", !.kind = "call", !.method = "get_label",
        !.req = {"label_id"}, !.direct = {"label_id"},
        !.idparam = "label_id", !.errpre = "Error getting label "]

get_labels ==
    [Base EXCEPT !.name = "get_labels", !.kind = "list", !.method = "get_labels",
        !.opt = {"limit"}, !.postlimit = TRUE, !.errpre = "Error getting labels"]

update_label ==
    [Base EXCEPT !.name = "update_label", !.kind = "update", !.method = "update_label",
        !.readback = "get_label", !.req = {"label_id"}, !.direct = {"label_id"},
        !.opt = {"name", "color", "item_order", "is_favorite"},
        !.norm = {"name", "color", "item_order", "is_favorite"},
        !.idparam = "label_id",
        !.failmsg = "Update label operation did not report success.",
        !.errpre = "Error updating label "]

delete_label ==
    [Base EXCEPT !.name = "delete_label", !.kind = "status", !.method = "delete_label",
        !.req = {"label_id"}, !.direct = {"label_id"}, !.idparam = "label_id",
        !.idkey = "label_id", !.action = "deleted",
        !.errpre = "Error deleting label "]

get_shared_labels ==
    [Base EXCEPT !.name = "get_shared_labels", !.kind = "shared", !.method = "get_labels",
        !.attr = "get_shared_labels", !.opt = {"omit_personal", "limit"},
        !.norm = {"omit_personal"}, !.postlimit = TRUE,
        !.errpre = "Error getting shared labels"]

rename_shared_label ==
    [Base EXCEPT !.name = "rename_shared_label", !.kind = "byname",
        !.method = "get_labels", !.attr = "rename_shared_label",
        !.req = {"name", "new_name"}, !.direct = {"name", "new_name"},
        !.idparam = "name", !.action = "renamed",
        !.errpre = "Error renaming shared label "]

remove_shared_label ==
    [Base EXCEPT !.name = "remove_shared_label", !.kind = "byname",
        !.method = "get_labels", !.attr = "remove_shared_label",
        !.req = {"name"}, !.direct = {"name"},
        !.idparam = "name", !.action = "removed",
        !.errpre = "Error removing shared label "]

add_comment ==
    [Base EXCEPT !.name = "add_comment", !.kind = "comment", !.method = "add_comment",
        !.req = {"content"}, !.direct = {"content"},
        !.opt = {"project_id", "task_id", "attachment_file_name", "attachment_file_url",
                 "attachment_file_type", "attachment_resource_type", "uids_to_notify"},
        !.norm = {"project_id", "task_id", "attachment"},
        !.errpre = "Error adding comment"]

get_comment ==
    [Base EXCEPT !.name = "get_comment", !.kind = "call", !.method = "get_comment",
        !.req = {"comment_id"}, !.direct = {"comment_id"},
        !.idparam = "comment_id", !.errpre = "Error getting comment "]

get_comments ==
    [Base EXCEPT !.name = "get_comments", !.kind = "comments", !.method = "get_comments",
        !.opt = {"project_id", "task_id", "limit"}, !.postlimit = TRUE,
        !.errpre = "Error getting comments"]

update_comment ==
    [Base EXCEPT !.name = "update_comment", !.kind = "update", !.method = "update_comment",
        !.readback = "get_comment", !.req = {"comment_id", "content"},
        !.direct = {"comment_id", "content"}, !.idparam = "comment_id",
        !.failmsg = "Update comment operation did not report success.",
        !.errpre = "Error updating comment "]

delete_comment ==
    [Base EXCEPT !.name = "delete_comment", !.kind = "status", !.method = "delete_comment",
        !.req = {"comment_id"}, !.direct = {"comment_id"}, !.idparam = "comment_id",
        !.idkey = "comment_id", !.action = "deleted",
        !.errpre = "Error deleting comment "]

Tools ==
    { add_task, get_task, get_tasks, filter_tasks, add_task_quick, update_task,
      complete_task, uncomplete_task, move_task, delete_task,
      get_completed_tasks_by_due_date, get_completed_tasks_by_completion_date,
      add_project, get_project, get_projects, update_project, archive_project,
      unarchive_project, delete_project, get_collaborators,
      add_section, get_section, get_sections, update_section, delete_section,
      add_label, get_label, get_labels, update_label, delete_label,
      get_shared_labels, rename_shared_label, remove_shared_label,
      add_comment, get_comment, get_comments, update_comment, delete_comment }

ToolNamed(n) == CHOOSE tl \in Tools : tl.name = n

\* The methods the tools look for with hasattr before calling them.
OptionalMethods ==
    { "get_completed_tasks_by_due_date", "get_completed_tasks_by_completion_date",
      "get_shared_labels", "rename_shared_label", "remove_shared_label" }

\* The installed SDK: one that has none of them, one that has them all.
SdkVersions == { {}, OptionalMethods }

(***************************************************************************)
(* What callers pass.                                                      *)
(***************************************************************************)
\* The value given for a required parameter.
RequiredValue(param) ==
    IF param = "since" THEN Str("ymd", 2024, 1, 1, 0, <<>>)          \* 2024-01-01
    ELSE IF param = "until" THEN Str("ymd", 2024, 1, 31, 0, <<>>)    \* 2024-01-31
    ELSE IF param \in {"content", "text"} THEN Text(<<"Buy milk">>)
    ELSE IF param = "name" THEN Text(<<"home">>)
    ELSE IF param = "new_name" THEN Text(<<"house">>)
    ELSE Text(<<"7">>)

\* The values a caller may give for an optional parameter.
OptionalValues(param) ==
    IF param = "limit" THEN {PyInt(0), PyInt(2), PyInt(-1)}
    ELSE IF param \in {"priority", "order", "day_order", "duration", "item_order"}
    THEN {PyInt(4)}
    ELSE IF param \in {"auto_reminder", "auto_parse_labels", "collapsed", "is_favorite",
                       "omit_personal"}
    THEN {PyBool(TRUE), PyBool(FALSE)}
    ELSE IF param \in {"labels", "ids", "uids_to_notify"}
    THEN {PyList(<<Text(<<"home">>)>>)}
    ELSE IF param \in DateKeys
    THEN {Str("ymd", 2024, 1, 31, 0, <<>>), Text(<<"tomorrow">>)}
    ELSE IF param = "due_datetime"
    THEN {Str("ymdTZ", 2023, 9, 1, 12, <<>>), Text(<<"tomorrow">>)}
    ELSE IF param \in {"project_id", "task_id", "section_id", "parent_id",
                       "attachment_file_url"}
    THEN {Text(<<"123">>), Text(<<>>)}     \* the tools test some of these for truth
    ELSE {Text(<<"123">>)}

\* The default of a parameter the caller leaves out.
DefaultOf(tl, param) ==
    IF tl.name = "add_task_quick" /\ param = "auto_reminder" THEN PyBool(TRUE)
    ELSE IF tl.name = "get_shared_labels" /\ param = "omit_personal" THEN PyBool(FALSE)
    ELSE None

\* The argument mappings of a call of the tool: every required parameter, and
\* at most MaxProvided optional ones.
ArgsOf(tl) ==
    UNION { { [param \in tl.req \cup tl.opt |->
                 IF param \in tl.req THEN RequiredValue(param)
                 ELSE IF param \in given THEN choice[param]
                 ELSE DefaultOf(tl, param)]
              : choice \in {c \in [given -> UNION {OptionalValues(q) : q \in given}] :
                              \A q \in given : c[q] \in OptionalValues(q)} }
            : given \in {G \in SUBSET tl.opt : Cardinality(G) <= MaxProvided} }

(***************************************************************************)
(* What the backend answers.                                               *)
(***************************************************************************)
BackendErrors ==
    { Raised("HTTPError", <<"404 Client Error: Not Found">>),
      Raised("HTTPError", <<"401 Client Error: Unauthorized">>) }

\* The record the SDK returns for the entity with this id.
EntityOf(id) ==
    PyRec("Task", [id |-> id, content |-> Text(<<"Buy milk">>),
                   created_at |-> PyDatetime(2024, 1, 31, 12, "utc")])

AnEntity == EntityOf(Text(<<"7">>))

\* An SDK object holding a value that copy.deepcopy refuses.
OddEntity == PyRec("Task", [id |-> Text(<<"7">>), content |-> PyGen])

\* Item i of what a paginator of the method yields.
ItemOf(method, i) ==
    IF method = "get_shared_labels"
    THEN Text(<<"label", ToString(i)>>)
    ELSE IF method = "get_labels"
    THEN PyRec("Label", [id |-> Text(<<ToString(i)>>),
                         name |-> Text(<<IF i % 2 = 0 THEN "home" ELSE "work">>),
                         is_shared |-> PyBool(i % 3 # 1),
                         is_favorite |-> PyBool(i % 2 = 1)])
    ELSE PyRec("Task", [id |-> Text(<<ToString(i)>>), content |-> Text(<<"Buy milk">>)])

(***************************************************************************)
(* get_todoist_client and todoist_lifespan                                 *)
(***************************************************************************)
\* utils.py lines 5-14: the handle, or ValueError when the token is not set.
get_todoist_client ==
    IF ~token
    THEN Raised("ValueError", <<"TODOIST_API_TOKEN not found in environment.">>)
    ELSE [t |-> "client", n |-> built + 1]

InitServer ==
    /\ token \in BOOLEAN
    /\ hasattrs \in SdkVersions
    /\ lifespan = "init"
    /\ client = None
    /\ built = 0
    /\ inv = InvIdle
    /\ norm = NormIdle
    /\ ser = SerIdle
    /\ pag = PagIdle

\* Lines 27-30: the client is obtained and the context is yielded.
LifespanYields ==
    /\ lifespan = "init"
    /\ ~IsRaise(get_todoist_client)
    /\ client' = get_todoist_client
    /\ built' = built + 1
    /\ lifespan' = "yielded"
    /\ UNCHANGED <<token, hasattrs, inv, helpers>>

\* The host enters todoist_lifespan once more in the same process (one entry
\* for each session it serves under the sse transport of main, lines
\* 1072-1097): lines 27-30 run again, get_todoist_client is called again and
\* the context of the calls that follow holds what it returned.  A tool that
\* is running keeps the client it read when it was entered.
SessionOpens ==
    /\ lifespan = "yielded"
    /\ built < MaxSessions
    /\ ~IsRaise(get_todoist_client)
    /\ client' = get_todoist_client
    /\ built' = built + 1
    /\ UNCHANGED <<token, hasattrs, lifespan, inv, helpers>>

\* Lines 31-33: ValueError becomes RuntimeError, which leaves the lifespan:
\* the server does not come up.
LifespanRaises ==
    /\ lifespan = "init"
    /\ IsRaise(get_todoist_client)
    /\ lifespan' = "raised"
    /\ UNCHANGED <<token, hasattrs, client, built, inv, helpers>>

\* A tool call asked of a server whose lifespan raised: no tool function is
\* entered, the caller gets the failure of the server.
CallRefused ==
    /\ lifespan = "raised"
    /\ inv.pc = "idle"
    /\ \E tl \in Tools :
          inv' = [InvIdle EXCEPT !.pc = "refused", !.tool = tl.name,
                    !.result = Raised("RuntimeError",
                        <<"Failed to initialize Todoist client in lifespan: ">>
                        \o get_todoist_client.msg)]
    /\ UNCHANGED <<token, hasattrs, lifespan, client, built, helpers>>

(***************************************************************************)
(* The parts the tool bodies share.                                        *)
(***************************************************************************)
Merge(f, g) == [k \in DOMAIN f \cup DOMAIN g |-> IF k \in DOMAIN f THEN f[k] ELSE g[k]]

\* A call of an SDK method: its keyword arguments and where it runs
\* ("thread": under asyncio.to_thread, "loop": on the event loop).
BackendCall(method, kw, where) == [method |-> method, kw |-> kw, where |-> where]

\* The buggy variant: the text of an authentication failure is replaced by
\* advice.
StrOfWithGuidance(e) ==
    IF e.msg = <<"401 Client Error: Unauthorized">>
    THEN <<"Check TODOIST_API_TOKEN.">>
    ELSE e.msg

\* The text of str(e)
StrOf(e) == e.msg

\* The buggy variant: the id of the item is left out of the message.
ExceptWithoutId(tl, args, e) ==
    _serialize_response(PyDict([error |-> Text(<<tl.errpre>> \o <<": ">> \o StrOf(e))]))

\* The buggy variant: no except clause, the exception leaves the tool.
ExceptReraises(tl, args, e) == e

\* The except clause of a tool: {"error": f"<errpre>[<id>]: {str(e)}"}.
Except(tl, args, e) ==
    _serialize_response(PyDict([error |->
        Text(<<tl.errpre>>
             \o (IF tl.idparam = "" THEN <<>> ELSE args[tl.idparam].txt)
             \o <<": ">> \o StrOf(e))]))

\* return _serialize_response(value) inside the try of the tool.
TrySerialize(tl, args, value) ==
    IF IsRaise(_serialize_response(value))
    THEN Except(tl, args, _serialize_response(value))
    ELSE _serialize_response(value)

\* The exception that "return _serialize_response(value)" raises inside the
\* try of the tool, None when it returns.
Thrown(value) ==
    IF IsRaise(_serialize_response(value)) THEN _serialize_response(value) ELSE None

\* The exception the except clause of the tool catches after the SDK call
\* gave this answer: the one the call raised, or the one raised while the
\* answer was serialized.
Caught(answer) == IF IsRaise(answer) THEN answer ELSE Thrown(answer)

\* if not client: return _serialize_response({"error": "Todoist client not available."})
NoClient == _serialize_response(PyDict([error |-> Text(<<"Todoist client not available.">>)]))

ErrorEnvelope(parts) == _serialize_response(PyDict([error |-> Text(parts)]))

\* The buggy variant: the parameters are passed on as they came, None and all.
ApiKwargsUnfiltered(tl, args) == PyDict([k \in tl.norm |-> args[k]])

\* api_kwargs of the tool: _prepare_api_kwargs over the parameters it names.
ApiKwargs(tl, args) == _prepare_api_kwargs([k \in tl.norm |-> args[k]])

\* The keyword arguments of the SDK call: those passed by name and **api_kwargs.
CallKwargs(tl, args) ==
    PyDict(Merge([k \in tl.direct |-> args[k]], ApiKwargs(tl, args).m))

\* The answers of the awaited SDK calls of the running tool, in order.
Answered(held, answer) ==
    PyList(IF held.t = "list" THEN Append(held.items, answer) ELSE <<answer>>)

Returned(tl, args, calls, result) ==
    [InvIdle EXCEPT !.pc = "done", !.tool = tl.name, !.args = args, !.client = client,
                    !.calls = calls, !.result = result]

Awaiting(pc, tl, args, calls) ==
    [InvIdle EXCEPT !.pc = pc, !.tool = tl.name, !.args = args, !.client = client,
                    !.calls = calls]

\* The buggy variant: a failure of the read-back is reported as an update
\* that did not succeed.
FailsAsFailedStatus(r, e) ==
    [r EXCEPT !.pc = "done", !.caught = e,
              !.result = IF r.pc = "readback"
                         THEN _serialize_response(
                                 PyDict([status |-> Text(<<"failed">>),
                                         message |-> Text(<<ToolNamed(r.tool).failmsg>>)]))
                         ELSE Except(ToolNamed(r.tool), r.args, e)]

\* The buggy variant: the call that raised is made once more before the
\* except clause answers.
FailsAndRetries(r, e) ==
    [r EXCEPT !.pc = "done", !.caught = e,
              !.calls = Append(r.calls, r.calls[Len(r.calls)]),
              !.result = Except(ToolNamed(r.tool), r.args, e)]

\* An awaited SDK call of the running tool raises e: the except clause of the
\* tool returns its envelope and nothing else is called (add_task lines
\* 181-183).
Fails(r, e) ==
    [r EXCEPT !.pc = "done", !.caught = e,
              !.result = Except(ToolNamed(r.tool), r.args, e)]

ServerUnchanged == UNCHANGED <<token, hasattrs, lifespan, client, built, helpers>>

(***************************************************************************)
(* Tools of kind "call", "status" and "update".                            *)
(***************************************************************************)
\* A tool of kind "call", "status" or "update" is called: it runs up to its
\* first await (add_task lines 165-179, complete_task lines 310-315,
\* update_task lines 285-297).
InvokeSimple ==
    /\ lifespan = "yielded"
    /\ inv.pc = "idle"
    /\ \E tl \in {x \in Tools : x.kind \in {"call", "status", "update"}} :
       \E args \in ArgsOf(tl) :
          inv' = IF Falsy(client)
                 THEN Returned(tl, args, <<>>, NoClient)
                 ELSE Awaiting(tl.kind, tl, args,
                               <<BackendCall(tl.method, CallKwargs(tl, args), "thread")>>)
    /\ ServerUnchanged

\* The SDK call of a tool of kind "call" ends (add_task lines 179-183).
CallReturns ==
    /\ inv.pc = "call"
    /\ LET tl == ToolNamed(inv.tool) IN
       \E answer \in {AnEntity, OddEntity, PyGen} \cup BackendErrors :
          inv' = IF IsRaise(answer)
                 THEN [Fails(inv, answer) EXCEPT !.held = Answered(inv.held, answer)]
                 ELSE [inv EXCEPT !.pc = "done", !.held = Answered(inv.held, answer),
                         !.caught = Thrown(answer),
                         !.result = TrySerialize(tl, inv.args, answer)]
    /\ ServerUnchanged

\* The buggy variant: a False answer of the SDK is reported as an error.
StatusObjectErrorOnFalse(tl, args, success) ==
    IF Falsy(success)
    THEN PyDict([error |-> Text(<<tl.errpre>> \o args[tl.idparam].txt)])
    ELSE PyDict(Merge([success |-> success, action |-> Text(<<tl.action>>)],
                      [k \in {tl.idkey} |-> args[tl.idparam]]))

\* {"success": success, "task_id": task_id, "action": "completed"}
\* (complete_task line 316).
StatusObject(tl, args, success) ==
    PyDict(Merge([success |-> success, action |-> Text(<<tl.action>>)],
                 [k \in {tl.idkey} |-> args[tl.idparam]]))

\* The SDK call of a tool of kind "status" ends (complete_task lines 315-319).
StatusReturns ==
    /\ inv.pc = "status"
    /\ LET tl == ToolNamed(inv.tool) IN
       \E answer \in {PyBool(TRUE), PyBool(FALSE)} \cup BackendErrors :
          inv' = IF IsRaise(answer)
                 THEN [Fails(inv, answer) EXCEPT !.held = Answered(inv.held, answer)]
                 ELSE [inv EXCEPT !.pc = "done", !.held = Answered(inv.held, answer),
                         !.result = TrySerialize(tl, inv.args,
                                                 StatusObject(tl, inv.args, answer))]
    /\ ServerUnchanged

\* The buggy variant: the answer of the update call is not looked at.
ReportsSuccessAlways(answer) == TRUE

\* "if success:" (update_task line 298).
ReportsSuccess(answer) == ~Falsy(answer)

\* The update call of a tool of kind "update" or of move_task ends
\* (update_task lines 297-305): a truthy answer starts the read-back.
UpdateReturns ==
    /\ inv.pc = "update"
    /\ LET tl == ToolNamed(inv.tool) IN
       \E answer \in {PyBool(TRUE), PyBool(FALSE), AnEntity} \cup BackendErrors :
          inv' = IF IsRaise(answer)
                 THEN [Fails(inv, answer) EXCEPT !.held = Answered(inv.held, answer)]
                 ELSE IF ~ReportsSuccess(answer)
                 THEN [inv EXCEPT !.pc = "done", !.held = Answered(inv.held, answer),
                         !.result = TrySerialize(tl, inv.args,
                             PyDict([status |-> Text(<<"failed">>),
                                     message |-> Text(<<tl.failmsg>>)]))]
                 ELSE [inv EXCEPT !.pc = "readback", !.held = Answered(inv.held, answer),
                         !.calls = Append(inv.calls,
                             BackendCall(tl.readback,
                                 PyDict([k \in {tl.idparam} |-> inv.args[tl.idparam]]),
                                 "thread"))]
    /\ ServerUnchanged

\* The read-back call ends (update_task lines 300-301).
ReadbackReturns ==
    /\ inv.pc = "readback"
    /\ LET tl == ToolNamed(inv.tool) IN
       \E answer \in {EntityOf(inv.args[tl.idparam]), OddEntity} \cup BackendErrors :
          inv' = IF IsRaise(answer)
                 THEN [Fails(inv, answer) EXCEPT !.held = Answered(inv.held, answer)]
                 ELSE [inv EXCEPT !.pc = "done", !.held = Answered(inv.held, answer),
                         !.caught = Thrown(answer),
                         !.result = TrySerialize(tl, inv.args, answer)]
    /\ ServerUnchanged

\* The string is handed to the caller; the next call may come.
Deliver ==
    /\ inv.pc \in {"done", "refused"}
    /\ inv' = InvIdle
    /\ ServerUnchanged

(***************************************************************************)
(* Tools that drain a paginator.                                           *)
(***************************************************************************)
Min(a, b) == IF a <= b THEN a ELSE b

\* The buggy variant: items[:limit] for every limit given, a negative one
\* counting from the end as Python slices do.
LimitedToAnySlice(items, limit) ==
    IF limit.t = "none" THEN items
    ELSE IF limit.n >= 0 THEN SubSeq(items, 1, Min(limit.n, Len(items)))
    ELSE SubSeq(items, 1, Len(items) + limit.n)

\* items[:limit] when limit is given and not negative, items otherwise
\* (get_projects lines 534-537).
LimitedTo(items, limit) ==
    IF limit.t # "none" /\ limit.n >= 0
    THEN SubSeq(items, 1, Min(limit.n, Len(items)))
    ELSE items

\* A tool of kind "list" is called (get_tasks lines 210-219, get_projects
\* lines 522-531, get_completed_tasks_by_due_date lines 410-440).
InvokeList ==
    /\ lifespan = "yielded"
    /\ inv.pc = "idle"
    /\ \E tl \in {x \in Tools : x.kind = "list"} :
       \E args \in ArgsOf(tl) :
          inv' = IF Falsy(client)
                 THEN Returned(tl, args, <<>>, NoClient)
                 ELSE IF tl.attr # "" /\ tl.attr \notin hasattrs
                 THEN Returned(tl, args, <<>>,
                        ErrorEnvelope(<<tl.name, " method not directly available in this SDK version. Requires filter-based approach.">>))
                 ELSE Awaiting("drain", tl, args,
                               <<BackendCall(tl.method, ApiKwargs(tl, args), "thread")>>)
    /\ ServerUnchanged

\* The buggy variant: the test for the two identifying parameters is left out.
NeitherGivenSkipped(a, b) == FALSE

\* "if project_id is None and task_id is None" (get_comments line 1013,
\* add_comment line 961, move_task line 351).
NeitherGiven(a, b) == a.t = "none" /\ b.t = "none"

\* sdk_call_kwargs of get_comments (lines 1017-1021).
CommentsKwargs(args) ==
    IF ~Falsy(args["task_id"]) THEN PyDict([task_id |-> args["task_id"]])
    ELSE IF ~Falsy(args["project_id"]) THEN PyDict([project_id |-> args["project_id"]])
    ELSE PyDict(<<>>)

\* get_comments is called (lines 1010-1025).
InvokeGetComments ==
    /\ lifespan = "yielded"
    /\ inv.pc = "idle"
    /\ \E args \in ArgsOf(get_comments) :
          inv' = IF Falsy(client)
                 THEN Returned(get_comments, args, <<>>, NoClient)
                 ELSE IF NeitherGiven(args["project_id"], args["task_id"])
                 THEN Returned(get_comments, args, <<>>,
                        ErrorEnvelope(<<"Either project_id or task_id must be provided for get_comments.">>))
                 ELSE Awaiting("drain", get_comments, args,
                               <<BackendCall("get_comments", CommentsKwargs(args), "thread")>>)
    /\ ServerUnchanged

\* get_shared_labels is called (lines 822-845).
InvokeGetSharedLabels ==
    /\ lifespan = "yielded"
    /\ inv.pc = "idle"
    /\ \E args \in ArgsOf(get_shared_labels) :
          inv' = IF Falsy(client)
                 THEN Returned(get_shared_labels, args, <<>>, NoClient)
                 ELSE IF "get_shared_labels" \in hasattrs
                 THEN Awaiting("drain", get_shared_labels, args,
                               <<BackendCall("get_shared_labels",
                                             ApiKwargs(get_shared_labels, args), "thread")>>)
                 ELSE Awaiting("drain", get_shared_labels, args,
                               <<BackendCall("get_labels", PyDict(<<>>), "thread")>>)
    /\ ServerUnchanged

\* sync_fetch takes one more page from the paginator (lines 56-57).
DrainPage ==
    /\ inv.pc = "drain"
    /\ Len(inv.fetches) < MaxFetches
    /\ \E k \in 0..MaxPageLen :
          inv' = [inv EXCEPT
                    !.fetches = Append(inv.fetches, "thread"),
                    !.all_items = extend(inv.all_items,
                        [j \in 1..k |-> ItemOf(inv.calls[1].method, Len(inv.all_items) + j)])]
    /\ ServerUnchanged

\* The paginator call, or the fetch of a page, raises inside sync_fetch: the
\* except clause of the tool answers.
DrainRaises ==
    /\ inv.pc = "drain"
    /\ \E e \in BackendErrors :
          inv' = [Fails(inv, e) EXCEPT !.fetches = Append(inv.fetches, "thread")]
    /\ ServerUnchanged

\* processed_shared_labels of get_shared_labels (lines 847-860).
SharedOf(labels, omit_personal) ==
    LET Keep(l) == ~Falsy(l.f["is_shared"])
                   /\ (~Falsy(omit_personal) => Falsy(l.f["is_favorite"]))
    IN  SelectSeq(labels, Keep)

\* The paginator is exhausted: the tool goes on with all the items (get_tasks
\* line 220, get_projects lines 534-539, get_shared_labels lines 837-868).
DrainEnds ==
    /\ inv.pc = "drain"
    /\ LET tl == ToolNamed(inv.tool)
           fetched == IF tl.kind = "shared" /\ inv.calls[1].method = "get_labels"
                      THEN SharedOf(inv.all_items, inv.args["omit_personal"])
                      ELSE inv.all_items
           final == IF tl.postlimit THEN LimitedTo(fetched, inv.args["limit"]) ELSE fetched
       IN  inv' = [inv EXCEPT !.pc = "done",
                     !.fetches = Append(inv.fetches, "thread"),
                     !.caught = Thrown(PyList(final)),
                     !.result = TrySerialize(tl, inv.args, PyList(final))]
    /\ ServerUnchanged

(***************************************************************************)
(* move_task, add_comment, rename_shared_label, remove_shared_label        *)
(***************************************************************************)
\* move_task is called (lines 344-372).
InvokeMoveTask ==
    /\ lifespan = "yielded"
    /\ inv.pc = "idle"
    /\ \E args \in ArgsOf(move_task) :
          inv' = IF Falsy(client)
                 THEN Returned(move_task, args, <<>>, NoClient)
                 ELSE IF NeitherGiven(args["project_id"], args["section_id"])
                 THEN Returned(move_task, args, <<>>,
                        ErrorEnvelope(<<"Either project_id or section_id must be provided for move_task.">>))
                 ELSE IF ~Falsy(args["parent_id"]) /\ Falsy(args["project_id"])
                         /\ Falsy(args["section_id"])
                 THEN Returned(move_task, args, <<>>,
                        ErrorEnvelope(<<"To change parent_id, please use the update_task tool.">>))
                 ELSE IF Falsy(ApiKwargs(move_task, args))
                 THEN Returned(move_task, args, <<>>,
                        ErrorEnvelope(<<"No move parameters provided.">>))
                 ELSE Awaiting("update", move_task, args,
                        <<BackendCall("update_task", CallKwargs(move_task, args), "thread")>>)
    /\ ServerUnchanged

\* attachment_obj of add_comment (lines 964-971).
AttachmentOf(args) ==
    IF ~Falsy(args["attachment_file_url"])
    THEN PyDict([file_name |-> args["attachment_file_name"],
                 file_url |-> args["attachment_file_url"],
                 file_type |-> args["attachment_file_type"],
                 resource_type |-> IF Falsy(args["attachment_resource_type"])
                                   THEN Text(<<"file">>)
                                   ELSE args["attachment_resource_type"]])
    ELSE None

\* add_comment is called (lines 958-983).
InvokeAddComment ==
    /\ lifespan = "yielded"
    /\ inv.pc = "idle"
    /\ \E args \in ArgsOf(add_comment) :
          inv' = IF Falsy(client)
                 THEN Returned(add_comment, args, <<>>, NoClient)
                 ELSE IF NeitherGiven(args["project_id"], args["task_id"])
                 THEN Returned(add_comment, args, <<>>,
                        ErrorEnvelope(<<"Either project_id or task_id must be provided for add_comment.">>))
                 ELSE Awaiting("call", add_comment, args,
                        <<BackendCall("add_comment",
                            PyDict(Merge([content |-> args["content"]],
                                _prepare_api_kwargs(
                                    [project_id |-> args["project_id"],
                                     task_id |-> args["task_id"],
                                     attachment |-> AttachmentOf(args)]).m)),
                            "thread")>>)
    /\ ServerUnchanged

\* rename_shared_label or remove_shared_label is called (lines 880-893,
\* 916-927): the SDK method of that name when the client has it, else
\* client.get_labels, both under asyncio.to_thread.
InvokeByName ==
    /\ lifespan = "yielded"
    /\ inv.pc = "idle"
    /\ \E tl \in {x \in Tools : x.kind = "byname"} :
       \E args \in ArgsOf(tl) :
          inv' = IF Falsy(client)
                 THEN Returned(tl, args, <<>>, NoClient)
                 ELSE IF tl.attr \in hasattrs
                 THEN Awaiting("byname", tl, args,
                        <<BackendCall(tl.attr, CallKwargs(tl, args), "thread")>>)
                 ELSE Awaiting("labels", tl, args,
                        <<BackendCall("get_labels", PyDict(<<>>), "thread")>>)
    /\ ServerUnchanged

\* client.rename_shared_label / client.remove_shared_label ends (lines
\* 889-890, 923-924).
ByNameReturns ==
    /\ inv.pc = "byname"
    /\ LET tl == ToolNamed(inv.tool) IN
       \E answer \in {PyBool(TRUE), PyBool(FALSE)} \cup BackendErrors :
          inv' = IF IsRaise(answer)
                 THEN [Fails(inv, answer) EXCEPT !.held = Answered(inv.held, answer)]
                 ELSE [inv EXCEPT !.pc = "done", !.held = Answered(inv.held, answer),
                         !.result =
                            IF tl.name = "rename_shared_label"
                            THEN TrySerialize(tl, inv.args,
                                    PyDict([success |-> answer, action |-> Text(<<"renamed">>),
                                            old_name |-> inv.args["name"],
                                            new_name |-> inv.args["new_name"]]))
                            ELSE TrySerialize(tl, inv.args,
                                    PyDict([success |-> answer, action |-> Text(<<"removed">>),
                                            name |-> inv.args["name"]]))]
    /\ ServerUnchanged

\* await asyncio.to_thread(client.get_labels) ends (lines 893, 927): the
\* paginator object is returned, no page is fetched yet; or the call raises.
LabelsReturns ==
    /\ inv.pc = "labels"
    /\ \/ inv' = [inv EXCEPT !.pc = "iterate"]
       \/ \E e \in BackendErrors :
             inv' = Fails(inv, e)
    /\ ServerUnchanged

\* "for lbl in all_labels" (lines 895-901, 929-935) runs on the event loop
\* and asks the paginator for its first page.  With no page the loop ends and
\* the label is not found; a page is a list, so lbl.name raises
\* AttributeError; the fetch itself may raise.  Lines 903-907 and 937-938
\* need a label found by the loop, which no iteration can give.
IterateLabels ==
    /\ inv.pc = "iterate"
    /\ LET tl == ToolNamed(inv.tool) IN
       \/ inv' = [inv EXCEPT !.pc = "done", !.fetches = <<"loop">>,
                    !.result = TrySerialize(tl, inv.args,
                        PyDict([error |-> Text(
                            <<"Shared label '">> \o inv.args["name"].txt
                            \o (IF tl.name = "rename_shared_label"
                                THEN <<"' not found.">>
                                ELSE <<"' not found to remove.">>))]))]
       \/ \E k \in 0..MaxPageLen :
             inv' = [inv EXCEPT !.pc = "done", !.fetches = <<"loop">>,
                       !.held = PyList([j \in 1..k |-> ItemOf("get_labels", j)]),
                       !.caught = Raised("AttributeError",
                                         <<"'list' object has no attribute 'name'">>),
                       !.result = Except(tl, inv.args,
                           Raised("AttributeError",
                                  <<"'list' object has no attribute 'name'">>))]
       \/ \E e \in BackendErrors :
             inv' = [Fails(inv, e) EXCEPT !.fetches = <<"loop">>]
    /\ ServerUnchanged

Next ==
    \/ LifespanYields \/ LifespanRaises \/ SessionOpens \/ CallRefused
    \/ InvokeSimple \/ InvokeList \/ InvokeGetComments \/ InvokeGetSharedLabels
    \/ InvokeMoveTask \/ InvokeAddComment \/ InvokeByName
    \/ CallReturns \/ StatusReturns \/ UpdateReturns \/ ReadbackReturns
    \/ DrainPage \/ DrainRaises \/ DrainEnds
    \/ ByNameReturns \/ LabelsReturns \/ IterateLabels
    \/ Deliver

Spec == InitServer /\ [][Next]_vars

(***************************************************************************)
(* Claims about the tools (checked under Spec).                            *)
(***************************************************************************)
\* A tool function has been entered and has not returned yet.
Running == inv.pc \notin {"idle", "done", "refused"}

\* One string holding one envelope: a JSON object or a JSON array.
IsEnvelope(out) == out.t = "jsontext" /\ out.v.t \in {"dict", "list"}

\* The values of pc at which a tool awaits, each the guard of the action
\* that ends the await.
AwaitPoints ==
    {"call", "status", "update", "readback", "drain", "byname", "labels", "iterate"}

\* How many awaits a running tool has before it at most.
AwaitsLeft ==
    IF inv.pc \in {"update", "labels"} THEN 2
    ELSE IF inv.pc = "drain" THEN MaxFetches + 1 - Len(inv.fetches)
    ELSE IF Running THEN 1
    ELSE 0

\* C1: every invocation of a tool, whatever the arguments and whatever the
\* backend does (a record, a false, an exception out of any backend call),
\* ends with one string holding one envelope and no exception leaves the tool
\* function; a running tool is at an await that some step ends, and each of
\* its steps brings it nearer to its return.
C1_EveryInvocationReturnsOneEnvelope ==
    /\ [](inv.pc = "done" => IsEnvelope(inv.result))
    /\ [](Running => inv.pc \in AwaitPoints)
    /\ [][Running /\ inv' # inv => AwaitsLeft' < AwaitsLeft]_vars

\* The read-back of update_task raised and the caller got an error object.
C1_Witness ==
    /\ inv.pc = "done"
    /\ inv.tool = "update_task"
    /\ Len(inv.calls) = 2
    /\ IsErrorObject(inv.result)
    /\ inv.result.v.m["error"].txt
         = <<"Error updating task ", "7", ": ", "404 Client Error: Not Found">>

\* C2: with no token in the environment, a tool call is answered with an
\* error object, and no backend call is made.
C2_NoCredentialErrorEnvelope ==
    (~token /\ inv.pc \in {"done", "refused"})
        => /\ IsErrorObject(inv.result)
           /\ inv.calls = <<>>
           /\ inv.fetches = <<>>

\* C4: no keyword argument of a backend call is None or holds None at any
\* depth.
C4_NoNullForwarded ==
    \A i \in 1..Len(inv.calls) : ~Holds(inv.calls[i].kw, {"none"})

\* The tools that drain a paginator and take a limit.
LimitedLists == {tl \in Tools : tl.kind \in {"list", "comments", "shared"} /\ "limit" \in tl.opt}

\* The flattened sequence the running list tool has to answer from: what was
\* drained, for get_shared_labels over get_labels the shared ones of it.
Flattened ==
    IF inv.tool = "get_shared_labels" /\ inv.calls[1].method = "get_labels"
    THEN SharedOf(inv.all_items, inv.args["omit_personal"])
    ELSE inv.all_items

\* C11: a list tool called with limit = k >= 0 whose drain gave n items
\* answers with the JSON array of the first min(k, n) of them.
C11_LimitGivesPrefix ==
    (/\ inv.pc = "done"
     /\ ToolNamed(inv.tool) \in LimitedLists
     /\ inv.result.v.t = "list"
     /\ inv.args["limit"].t = "int"
     /\ inv.args["limit"].n >= 0)
        => inv.result = _serialize_response(PyList(
               SubSeq(Flattened, 1, Min(inv.args["limit"].n, Len(Flattened)))))

\* C12: a list tool never passes the limit to the backend call.
C12_LimitNotForwarded ==
    (inv.pc \notin {"idle", "refused"} /\ ToolNamed(inv.tool) \in LimitedLists)
        => \A i \in 1..Len(inv.calls) : "limit" \notin DOMAIN inv.calls[i].kw.m

\* C13: get_todoist_client caches its handle: however often it is called in
\* one process, one handle at most is constructed and every call returns it.
C13_AccessorCachesHandle ==
    /\ built <= 1
    /\ client.t = "client" => client.n = 1

\* C14: one handle at most is constructed, every backend call of every
\* invocation goes through it, and no step of a tool constructs or replaces
\* the handle.
C14_SingleSharedHandle ==
    /\ [](inv.calls # <<>> => built = 1 /\ inv.client = [t |-> "client", n |-> 1])
    /\ [][inv' # inv => UNCHANGED <<client, built>>]_vars

\* The tools whose SDK call answers with a success flag and that read the
\* record back.
UpdateTools == {tl \in Tools : tl.kind \in {"update", "move"}}

\* C15: an update tool whose update call reports failure answers with
\* {"status": "failed", "message": ...} and makes no other call; when the
\* update call reports success it makes exactly one more call, the read-back
\* of the same id, and answers with the record that call returned.
C15_ReadBackOnlyOnSuccess ==
    (inv.pc \in {"readback", "done"} /\ ToolNamed(inv.tool) \in UpdateTools
     /\ inv.calls # <<>>)
        => LET tl == ToolNamed(inv.tool)
               answers == inv.held.items
               id == inv.args[tl.idparam]
           IN  /\ inv.calls[1].method = tl.method
               /\ inv.calls[1].kw.m[tl.idparam] = id
               /\ (~IsRaise(answers[1]) /\ Falsy(answers[1]))
                     => /\ inv.pc = "done"
                        /\ Len(inv.calls) = 1
                        /\ inv.result = JsonText(PyDict(
                               [status |-> Text(<<"failed">>),
                                message |-> Text(<<tl.failmsg>>)]))
               /\ (~IsRaise(answers[1]) /\ ~Falsy(answers[1]))
                     => /\ Len(inv.calls) = 2
                        /\ inv.calls[2].method = tl.readback
                        /\ inv.calls[2].kw = PyDict([k \in {tl.idparam} |-> id])
                        /\ (inv.pc = "done" /\ answers[2] = EntityOf(id))
                              => inv.result = JsonText(PyDict(
                                     [id |-> id, content |-> Text(<<"Buy milk">>),
                                      created_at |-> Str("ymdTOff", 2024, 1, 31, 12, <<>>)]))

\* update_task: the update reported success, the task was read back and is
\* the answer.
C15_Witness ==
    /\ inv.pc = "done"
    /\ inv.tool = "update_task"
    /\ inv.held = PyList(<<PyBool(TRUE), EntityOf(Text(<<"7">>))>>)
    /\ Len(inv.calls) = 2
    /\ inv.result.v.t = "dict"
    /\ inv.result.v.m["id"] = Text(<<"7">>)

\* The running tool needs one of two identifying parameters and got neither.
NeitherSupplied ==
    \/ /\ inv.tool \in {"add_comment", "get_comments"}
       /\ inv.args["project_id"] = None /\ inv.args["task_id"] = None
    \/ /\ inv.tool = "move_task"
       /\ inv.args["project_id"] = None /\ inv.args["section_id"] = None

\* C16: add_comment and get_comments called with neither project_id nor
\* task_id, and move_task called with neither project_id nor section_id,
\* return at once an error object that says which parameters are needed, and
\* make no backend call.
C16_NeitherIdShortCircuits ==
    (inv.pc \notin {"idle", "refused"} /\ NeitherSupplied)
        => /\ inv.pc = "done"
           /\ inv.calls = <<>>
           /\ inv.fetches = <<>>
           /\ IsErrorObject(inv.result)
           /\ DOMAIN inv.result.v.m = {"error"}
           /\ inv.result.v.m["error"].txt
                = <<IF inv.tool = "move_task"
                    THEN "Either project_id or section_id must be provided for move_task."
                    ELSE IF inv.tool = "add_comment"
                    THEN "Either project_id or task_id must be provided for add_comment."
                    ELSE "Either project_id or task_id must be provided for get_comments.">>

\* add_comment(content="Buy milk") has returned its error object.
C16_Witness ==
    /\ inv.pc = "done"
    /\ inv.tool = "add_comment"
    /\ inv.args["content"] = Text(<<"Buy milk">>)
    /\ NeitherSupplied
    /\ inv.calls = <<>>
    /\ IsErrorObject(inv.result)

\* The except clause of the running tool has answered.
FailureCaught == inv.pc = "done" /\ inv.caught # None

\* The id of the item the running tool is about, when it names one.
ItemId == IF ToolNamed(inv.tool).idparam = "" THEN <<>>
          ELSE inv.args[ToolNamed(inv.tool).idparam].txt

AuthFailure(e) == e.msg = <<"401 Client Error: Unauthorized">>

Tail_(txt, n) == SubSeq(txt, Len(txt) - n + 1, Len(txt))

OnlyContentAndProject ==
    /\ inv.pc \notin {"idle", "refused"}
    /\ inv.tool = "add_task"
    /\ inv.args["project_id"] # None
    /\ \A p \in DOMAIN inv.args \ {"content", "project_id"} : inv.args[p] = None

\* C19: add_task(content, project_id) with nothing else given makes exactly
\* one backend call, add_task with the keyword arguments content and
\* project_id and no other, and answers with the JSON object of the record
\* the call returned, its id and content in it.
C19_AddTaskExactArguments ==
    OnlyContentAndProject
        => /\ Len(inv.calls) = 1
           /\ inv.calls[1].method = "add_task"
           /\ inv.calls[1].kw = PyDict([content |-> inv.args["content"],
                                        project_id |-> inv.args["project_id"]])
           /\ (inv.pc = "done" /\ inv.held = PyList(<<AnEntity>>))
                 => /\ inv.result.t = "jsontext" /\ inv.result.v.t = "dict"
                    /\ {"id", "content"} \subseteq DOMAIN inv.result.v.m
                    /\ inv.result.v.m["id"] = AnEntity.f["id"]
                    /\ inv.result.v.m["content"] = AnEntity.f["content"]

\* add_task(content="Buy milk", project_id="123") has answered with the
\* record created.
C19_Witness ==
    /\ OnlyContentAndProject
    /\ inv.pc = "done"
    /\ inv.args["content"] = Text(<<"Buy milk">>)
    /\ inv.args["project_id"] = Text(<<"123">>)
    /\ inv.held = PyList(<<AnEntity>>)
    /\ inv.result.v.m["id"] = Text(<<"7">>)

\* Two digits of a month or a day.
Pad2(n) == IF n < 10 THEN <<"0", ToString(n)>> ELSE <<ToString(n)>>

\* YYYY-MM-DD of a date given as a string.
YMDText(s) == <<ToString(s.y), "-">> \o Pad2(s.m) \o <<"-">> \o Pad2(s.d)

\* The text holds the part.
Embeds(txt, part) ==
    \E i \in 1..(Len(txt) - Len(part) + 1) : SubSeq(txt, i, i + Len(part) - 1) = part

\* C20: get_completed_tasks_by_due_date(since, until) calls the generic
\* list-fetch, get_tasks, with a filter expression that embeds both dates as
\* YYYY-MM-DD, and calls no method of the SDK that takes a date range.
C20_FilterExpressionToListFetch ==
    (inv.pc \notin {"idle", "refused"} /\ inv.tool = "get_completed_tasks_by_due_date")
        => /\ inv.calls # <<>>
           /\ \A i \in 1..Len(inv.calls) :
                 /\ inv.calls[i].method = "get_tasks"
                 /\ DOMAIN inv.calls[i].kw.m \cap {"since", "until"} = {}
                 /\ "filter" \in DOMAIN inv.calls[i].kw.m
                 /\ inv.calls[i].kw.m["filter"].t = "str"
                 /\ Embeds(inv.calls[i].kw.m["filter"].txt, YMDText(inv.args["since"]))
                 /\ Embeds(inv.calls[i].kw.m["filter"].txt, YMDText(inv.args["until"]))

\* The tools whose SDK call answers with a bare boolean that is reported.
StatusTools == {tl \in Tools : tl.kind = "status"}

\* A tool of that kind has returned after its SDK call answered a boolean.
StatusAnswered ==
    /\ inv.pc = "done"
    /\ inv.tool \in {tl.name : tl \in StatusTools}
    /\ inv.held.t = "list"
    /\ inv.held.items[1].t = "bool"

\* C21 as stated: the envelope of a boolean-result operation is the object
\* with the keys success, id and action, success being the boolean the
\* backend returned, also when that boolean is false.
C21_StatusKeysSuccessIdAction ==
    StatusAnswered
        => /\ inv.result.t = "jsontext" /\ inv.result.v.t = "dict"
           /\ DOMAIN inv.result.v.m = {"success", "id", "action"}
           /\ inv.result.v.m["success"] = inv.held.items[1]

\* The name of the identifying parameter of each boolean-result tool, as the
\* claim lists them.
IdKeyOf(tool) ==
    IF tool \in {"complete_task", "uncomplete_task", "delete_task"} THEN "task_id"
    ELSE IF tool \in {"archive_project", "unarchive_project", "delete_project"}
    THEN "project_id"
    ELSE IF tool = "delete_section" THEN "section_id"
    ELSE IF tool = "delete_label" THEN "label_id"
    ELSE "comment_id"

\* C21 amended: the envelope is the object with the keys success, action and
\* the tool's own identifier key (task_id, project_id, section_id, label_id or
\* comment_id) holding the id it was called with; success is the boolean the
\* backend returned, and a false answer gives this object, not an error.
C21_StatusKeysSuccessOwnIdAction ==
    /\ {tl.name : tl \in StatusTools}
          = {"complete_task", "uncomplete_task", "delete_task", "archive_project",
             "unarchive_project", "delete_project", "delete_section", "delete_label",
             "delete_comment"}
    /\ StatusAnswered
          => /\ inv.result.t = "jsontext" /\ inv.result.v.t = "dict"
             /\ DOMAIN inv.result.v.m = {"success", IdKeyOf(inv.tool), "action"}
             /\ inv.result.v.m["success"] = inv.held.items[1]
             /\ inv.result.v.m[IdKeyOf(inv.tool)] = inv.args[IdKeyOf(inv.tool)]
             /\ inv.result.v.m["action"].t = "str"
             /\ inv.caught = None

\* delete_task has returned the status object for a backend answer of False.
C21_Witness ==
    /\ StatusAnswered
    /\ inv.tool = "delete_task"
    /\ inv.held.items[1] = PyBool(FALSE)
    /\ inv.result.v.m["success"] = PyBool(FALSE)
    /\ inv.result.v.m["action"] = Text(<<"deleted">>)

\* C22: every blocking backend call of an invocation, each direct call, each
\* read-back and each page fetch of a drain, runs on a worker thread and none
\* on the event loop, where it would stall the other invocations.
C22_BackendCallsOffTheLoop ==
    /\ \A i \in 1..Len(inv.calls) : inv.calls[i].where = "thread"
    /\ \A i \in 1..Len(inv.fetches) : inv.fetches[i] = "thread"

\* The except clause of the running tool has caught a failure of the backend.
BackendFailed(r) == r.caught \in BackendErrors

\* C23: nothing is retried.  The step in which a backend call of an
\* invocation raises adds no backend call, the invocation has then returned
\* one error envelope, and the only thing that follows is its delivery.
C23_NoRetryAfterFailure ==
    /\ [](BackendFailed(inv)
            => /\ inv.pc = "done"
               /\ inv.result.t = "jsontext" /\ inv.result.v.t = "dict"
               /\ DOMAIN inv.result.v.m = {"error"})
    /\ [][BackendFailed(inv') /\ inv' # inv
            => /\ ~BackendFailed(inv)
               /\ inv'.calls = inv.calls
               /\ Len(inv'.fetches) <= Len(inv.fetches) + 1]_vars
    /\ [][BackendFailed(inv) /\ inv' # inv => inv' = InvIdle]_vars

\* A drain has failed on its second page, after items were collected.
C23_Witness ==
    /\ BackendFailed(inv)
    /\ inv.pc = "done"
    /\ Len(inv.calls) = 1
    /\ Len(inv.fetches) = 2
    /\ inv.all_items # <<>>
    /\ "error" \in DOMAIN inv.result.v.m

\* The invocation was turned away before its backend operation because the
\* client or the identifiers of the call were missing.
RefusedForArguments ==
    inv.result \in
        { NoClient,
          ErrorEnvelope(<<"Either project_id or task_id must be provided for get_comments.">>),
          ErrorEnvelope(<<"Either project_id or task_id must be provided for add_comment.">>),
          ErrorEnvelope(<<"Either project_id or section_id must be provided for move_task.">>),
          ErrorEnvelope(<<"To change parent_id, please use the update_task tool.">>),
          ErrorEnvelope(<<"No move parameters provided.">>) }

\* C24: an invocation issues exactly one primary backend operation (a call,
\* or a drain of the paginator it returns) once its arguments are accepted,
\* and besides it only the one read-back of an update tool: never more than
\* two operations, and never none.
C24_OnePrimaryOperation ==
    /\ Len(inv.calls) <= 2
    /\ Len(inv.calls) = 2
          => /\ inv.tool \in {tl.name : tl \in UpdateTools}
             /\ inv.calls[2].method = ToolNamed(inv.tool).readback
    /\ (inv.pc = "done" /\ ~RefusedForArguments) => Len(inv.calls) >= 1

\* The update call of an update tool reported success and its read-back
\* raised.
ReadbackFailed ==
    /\ inv.tool \in {tl.name : tl \in UpdateTools}
    /\ inv.held.t = "list"
    /\ Len(inv.held.items) = 2
    /\ IsRaise(inv.held.items[2])

\* C25: when the update call reports success and the read-back raises, the
\* invocation returns an error envelope, not the failed-status object and not
\* a record, and calls nothing after the read-back: no call undoes the update.
C25_ReadBackFailureIsAnError ==
    /\ [](ReadbackFailed
            => /\ inv.pc = "done"
               /\ ~Falsy(inv.held.items[1])
               /\ inv.result.t = "jsontext" /\ inv.result.v.t = "dict"
               /\ DOMAIN inv.result.v.m = {"error"}
               /\ inv.result = Except(ToolNamed(inv.tool), inv.args, inv.held.items[2])
               /\ Len(inv.calls) = 2
               /\ inv.calls[2].method = ToolNamed(inv.tool).readback)
    /\ [][ReadbackFailed /\ inv' # inv => inv' = InvIdle]_vars

\* update_task(task_id="7", priority=4): the update answered True, get_task
\* raised 404, and the error envelope was returned.
C25_Witness ==
    /\ ReadbackFailed
    /\ inv.tool = "update_task"
    /\ inv.args["priority"] = PyInt(4)
    /\ inv.held.items[1] = PyBool(TRUE)
    /\ inv.held.items[2] = Raised("HTTPError", <<"404 Client Error: Not Found">>)
    /\ inv.calls[1].method = "update_task"
    /\ inv.calls[2].method = "get_task"
    /\ inv.result = ErrorEnvelope(<<"Error updating task ", "7", ": ", "404 Client Error: Not Found">>)

\* C26: whenever get_comments calls the backend, the keyword arguments of the
\* call hold exactly one identifier: task_id when the caller gave one,
\* project_id otherwise; never both and never neither.
C26_CommentsCallHasOneIdentifier ==
    (inv.tool = "get_comments" /\ inv.calls # <<>>)
        => LET kw == inv.calls[1].kw.m IN
           /\ Cardinality(DOMAIN kw \cap {"task_id", "project_id"}) = 1
           /\ inv.args["task_id"] # None => kw = [task_id |-> inv.args["task_id"]]
           /\ inv.args["task_id"] = None => kw = [project_id |-> inv.args["project_id"]]

\* C27: move_task called with parent_id and with neither project_id nor
\* section_id returns the error envelope that sends the caller to the
\* update_task tool, and calls nothing.
C27_ParentOnlyPointsToUpdateTask ==
    (/\ inv.tool = "move_task"
     /\ inv.pc \notin {"idle", "refused"}
     /\ ~Falsy(inv.args["parent_id"])
     /\ inv.args["project_id"] = None
     /\ inv.args["section_id"] = None)
        => /\ inv.pc = "done"
           /\ inv.calls = <<>>
           /\ inv.result
                 = ErrorEnvelope(<<"To change parent_id, please use the update_task tool.">>)

\* rename_shared_label or remove_shared_label has returned after going
\* through client.get_labels, and no call of the backend raised.
FallbackDone ==
    /\ inv.tool \in {"rename_shared_label", "remove_shared_label"}
    /\ inv.pc = "done"
    /\ inv.calls # <<>>
    /\ inv.calls[1].method = "get_labels"
    /\ ~BackendFailed(inv)

\* The labels the listing gave.
Listed == IF inv.held.t = "list" THEN inv.held.items ELSE <<>>

\* The places of the shared labels of the given name among them.
Matches ==
    {i \in 1..Len(Listed) : /\ Listed[i].f["name"] = inv.args["name"]
                            /\ ~Falsy(Listed[i].f["is_shared"])}

\* C28: without a direct method the two tools look at every label of the
\* listing: when a shared label of the given name is there, the first one is
\* the label updated or deleted, and the "not found" envelope is returned
\* only when there is none.
C28_FallbackFindsLabelByName ==
    FallbackDone
        => IF Matches = {}
           THEN inv.result = ErrorEnvelope(<<"Shared label '">> \o inv.args["name"].txt
                                 \o (IF inv.tool = "rename_shared_label"
                                     THEN <<"' not found.">>
                                     ELSE <<"' not found to remove.">>))
           ELSE /\ Len(inv.calls) >= 2
                /\ inv.calls[2].method = (IF inv.tool = "rename_shared_label"
                                          THEN "update_label" ELSE "delete_label")
                /\ \E i \in Matches :
                      /\ \A j \in Matches : i <= j
                      /\ inv.calls[2].kw.m["label_id"] = Listed[i].f["id"]

\* One of the five tools that cut the list themselves has returned a list.
SlicingToolListed ==
    /\ inv.pc = "done"
    /\ inv.tool \in {"get_projects", "get_sections", "get_labels", "get_comments",
                     "get_shared_labels"}
    /\ inv.result.t = "jsontext"
    /\ inv.result.v.t = "list"

\* C29: get_projects, get_sections, get_labels, get_comments and
\* get_shared_labels answer with the whole flattened list when limit is not
\* given or is negative (never with a slice counted from the end), and with
\* the empty array when limit is 0.
C29_NoLimitNegativeLimitZeroLimit ==
    SlicingToolListed
        => /\ (inv.args["limit"] = None \/ inv.args["limit"].n < 0)
                 => /\ inv.result = _serialize_response(PyList(Flattened))
                    /\ Len(inv.result.v.items) = Len(Flattened)
           /\ inv.args["limit"] = PyInt(0) => inv.result.v.items = <<>>

\* get_labels(limit=-1) has answered with all three labels of its two pages.
C29_Witness ==
    /\ SlicingToolListed
    /\ inv.tool = "get_labels"
    /\ inv.args["limit"] = PyInt(-1)
    /\ Len(inv.all_items) = 3
    /\ Len(inv.result.v.items) = 3

====
